---- MODULE Spec2Model ----
(***************************************************************************)
(* A model of the two index structures of the repository:                  *)
(*   - the B+ tree of src/Bplustree.py (BPlusTree, Internal, Leaf), and    *)
(*   - the extendible hash table of src/ExtendibleHash.py (ExtendibleHash, *)
(*     Bucket).                                                            *)
(* Objects live in arenas: a node or a bucket is a record in a sequence    *)
(* and a reference to it is its index (0 stands for Python's None          *)
(* reference).  Python lists are sequences; Python index i is TLA+ index   *)
(* i + 1.  An optional value (a result that may be None) is a sequence of  *)
(* length 0 (None) or 1.                                                   *)
(***************************************************************************)
EXTENDS Integers, Sequences, FiniteSets, TLC

VARIABLES
    \* ---- ExtendibleHash ----
    bucket_capacity,   \* ExtendibleHash.bucket_capacity
    global_depth,      \* ExtendibleHash.global_depth
    directory,         \* ExtendibleHash.directory: sequence of bucket references
    next_bucket_id,    \* ExtendibleHash.next_bucket_id
    buckets,           \* the Bucket objects: reference |-> [capacity, local_depth, items, bucket_id]
    files,             \* the pickle files in the working directory: name |-> blob
    hcall,             \* the last ExtendibleHash.insert call and what it returned
    htrace,            \* the split_bucket / grow_directory calls made by that call
    hins,              \* the (key, value) pairs of the insert calls that returned True
    \* ---- BPlusTree ----
    nodes,             \* the Node objects: reference |-> record
    root,              \* BPlusTree.root
    leaf_num,          \* BPlusTree.leaf_num
    tcall,             \* whether BPlusTree.insert was called and what the last call returned
    tins,              \* the (key, value) pairs of the insert calls that returned True
    tfirst,            \* for each key passed to insert, the (key, value) of its first call
    tload              \* whether BPlusTree.load_from_file was called, and the lines of the
                       \* file of the last call

hvars == <<bucket_capacity, global_depth, directory, next_bucket_id, buckets, files,
           hcall, htrace, hins>>
tvars == <<nodes, root, leaf_num, tcall, tins, tfirst, tload>>
vars == <<hvars, tvars>>

----------------------------------------------------------------------------
(* Bounds of the model. *)

\* hash keys are the integers 0 .. MaxHKey, and -1
MaxHKey == 3
\* the constructor is called with bucket_capacity in 1 .. MaxCapacity
MaxCapacity == 2
\* the constructor is called with global_depth in 0 .. MaxInitDepth
MaxInitDepth == 1
\* insert is not called any more once global_depth exceeds MaxGlobalDepth
MaxGlobalDepth == 2
\* tree keys are the integers 1 .. MaxKey
MaxKey == 12
\* load_from_file reads files of 0 .. MaxLines lines
MaxLines == 2
\* the keys of a growing run (RunSpec) are the integers 1 .. MaxRunKey
MaxRunKey == 19
\* tree.insert(key, value) is called with an explicit value for the keys
\* 1 .. MaxValuedKey, and as tree.insert(key) for every key
MaxValuedKey == 1
\* eh.insert(key, value) is called with value = key for every key (as load_from_file
\* does), and with another value for the keys 0 .. MaxHValuedKey
MaxHValuedKey == 0

\* an insert loop of one attempt more
max_attempts_more == 10 + 1

(* Program constants. *)
max_attempts == 10
NodeOrder == 4
HashBits == 32

\* -1 is the int that Python does not hash to itself (hash(-1) = -2): under
\* hash_function it is a second key of hash 2
HKeys == {-1} \cup (0 .. MaxHKey)
\* a value that is no key: values are opaque payloads, and a second value for a
\* key tells an overwrite from a no-op
Payload(key) == key + 100

None == <<>>
Some(v) == <<v>>

\* the function f on 1..n as a sequence value
AsSeq(f) == SubSeq(f, 1, Len(f))

----------------------------------------------------------------------------
(* Arithmetic on machine integers. *)

Abs(x) == IF x < 0 THEN 0 - x ELSE x

\* 1 << n
Shl1(n) == 2 ^ n

\* x & ((1 << n) - 1) for x >= 0: the low-order n bits of x
AndMask(x, n) == x % (2 ^ n)

\* x & shift for x >= 0 and shift = 1 << n: that bit of x, in place
AndBit(x, shift) == ((x \div shift) % 2) * shift

\* x % (2 ** w) for 0 <= x < 2^31 (TLC's integers are 32-bit,
\* so for w >= 31 the reduction leaves x as it is)
ModPow2(x, w) == IF w >= 31 THEN x ELSE x % (2 ^ w)

\* Python's built-in hash on a small int: the int itself, except hash(-1) = -2
PyHash(key) == IF key = -1 THEN -2 ELSE key

----------------------------------------------------------------------------
(* Python dict as an insertion-ordered sequence of <<key, value>> pairs. *)

DictKeys(items) == {items[i][1] : i \in 1..Len(items)}
DictHas(items, key) == key \in DictKeys(items)
\* dict.get(key): the value, or None
DictGet(items, key) ==
    IF DictHas(items, key)
    THEN Some(items[CHOOSE i \in 1..Len(items) : items[i][1] = key][2])
    ELSE None
\* items[key] = value
DictSet(items, key, value) ==
    IF DictHas(items, key)
    THEN AsSeq([i \in 1..Len(items) |->
                  IF items[i][1] = key THEN <<key, value>> ELSE items[i]])
    ELSE Append(items, <<key, value>>)

----------------------------------------------------------------------------
(* ExtendibleHash.  The operators take and return the table as a record    *)
(* h = [bucket_capacity, global_depth, directory, next_bucket_id, buckets, *)
(* files, splits, grows]; splits and grows log the calls of split_bucket   *)
(* and grow_directory.                                                     *)

LoadName(bucket_id) == <<"bucket", bucket_id>>
SaveName(bucket_id) == <<"bucket_", bucket_id>>
MetaName == <<"hash_metadata", 0>>

\* f with f[name] = blob
FileWrite(f, name, blob) ==
    [n \in (DOMAIN f) \cup {name} |-> IF n = name THEN blob ELSE f[n]]

\* Bucket.__init__ (bucket_id is never None in this program)
Bucket(f, capacity, local_depth, bucket_id) ==
    IF LoadName(bucket_id) \in DOMAIN f
    THEN [capacity |-> capacity,
          local_depth |-> f[LoadName(bucket_id)].local_depth,
          items |-> f[LoadName(bucket_id)].items,
          bucket_id |-> bucket_id]
    ELSE [capacity |-> capacity, local_depth |-> local_depth,
          items |-> <<>>, bucket_id |-> bucket_id]

\* Bucket.save
BucketSave(h, b) ==
    [h EXCEPT !.files =
        FileWrite(@, SaveName(h.buckets[b].bucket_id),
                  [items |-> h.buckets[b].items,
                   local_depth |-> h.buckets[b].local_depth])]

\* ExtendibleHash.save_metadata
save_metadata(h) ==
    [h EXCEPT !.files =
        FileWrite(@, MetaName,
                  [global_depth |-> h.global_depth,
                   next_bucket_id |-> h.next_bucket_id])]

\* Bucket.insert accepting one item more than capacity ("<=" for "<")
BucketInsertOneMore(h, b, key, value) ==
    IF DictHas(h.buckets[b].items, key)
    THEN [h |-> h, result |-> FALSE]
    ELSE IF Len(h.buckets[b].items) <= h.buckets[b].capacity
    THEN [h |-> BucketSave([h EXCEPT !.buckets[b].items = DictSet(@, key, value)], b),
          result |-> TRUE]
    ELSE [h |-> h, result |-> FALSE]

\* Bucket.insert refusing the last free place
BucketInsertEarlyFull(h, b, key, value) ==
    IF DictHas(h.buckets[b].items, key)
    THEN [h |-> h, result |-> FALSE]
    ELSE IF Len(h.buckets[b].items) + 1 < h.buckets[b].capacity
    THEN [h |-> BucketSave([h EXCEPT !.buckets[b].items = DictSet(@, key, value)], b),
          result |-> TRUE]
    ELSE [h |-> h, result |-> FALSE]

\* Bucket.insert: the table afterwards and the returned flag
BucketInsert(h, b, key, value) ==
    IF DictHas(h.buckets[b].items, key)
    THEN [h |-> h, result |-> FALSE]
    ELSE IF Len(h.buckets[b].items) < h.buckets[b].capacity
    THEN [h |-> BucketSave([h EXCEPT !.buckets[b].items = DictSet(@, key, value)], b),
          result |-> TRUE]
    ELSE [h |-> h, result |-> FALSE]

\* ExtendibleHash.hash_function
hash_function(key) == ModPow2(Abs(PyHash(key)), HashBits)

\* ExtendibleHash.get_directory_index
get_directory_index(h, key) ==
    AndMask(hash_function(key), h.global_depth)

\* grow_directory appending directory[0] old_size times instead of directory[i]
grow_directory_first(h) ==
    LET old_size == Len(h.directory)
        g == [h EXCEPT !.global_depth = @ + 1,
                       !.directory = @ \o AsSeq([i \in 1..old_size |-> @[1]])]
    IN save_metadata(g)

\* grow_directory without "self.global_depth += 1"
grow_directory_keeps_depth(h) ==
    LET old_size == Len(h.directory)
        g == [h EXCEPT !.directory = @ \o SubSeq(@, 1, old_size)]
    IN save_metadata(g)

\* ExtendibleHash.grow_directory
grow_directory(h) ==
    LET old_size == Len(h.directory)
        g == [h EXCEPT !.global_depth = @ + 1,
                       !.directory = @ \o SubSeq(@, 1, old_size)]
    IN save_metadata(g)

\* the grow_directory call of split_bucket, logged
GrowStep(h, old_bucket) ==
    LET g == grow_directory(h)
    IN [g EXCEPT !.grows = Append(@,
           [before_dir |-> h.directory, after_dir |-> g.directory,
            before_depth |-> h.global_depth, after_depth |-> g.global_depth,
            local_depth |-> h.buckets[old_bucket].local_depth])]

\* split_bucket, lines 129-133: repoint the slots of old_bucket that have the new bit set
Repoint(dir, old_bucket, new_bucket, shift) ==
    AsSeq([i \in 1..Len(dir) |->
              IF dir[i] = old_bucket /\ AndBit(i - 1, shift) # 0
              THEN new_bucket ELSE dir[i]])

\* the redistribution of split_bucket with the index taken under the mask of the
\* depth before the split (one bit short)
RECURSIVE RedistributeStale(_, _, _)
RedistributeStale(h, todo, n) ==
    IF n > Len(todo) THEN h
    ELSE LET dir_index == AndMask(hash_function(todo[n][1]), h.global_depth - 1)
             b == h.directory[dir_index + 1]
         IN RedistributeStale([h EXCEPT !.buckets[b].items =
                                    DictSet(@, todo[n][1], todo[n][2])],
                              todo, n + 1)

\* split_bucket, lines 139-142: write the items back through the directory
RECURSIVE Redistribute(_, _, _)
Redistribute(h, todo, n) ==
    IF n > Len(todo) THEN h
    ELSE LET dir_index == get_directory_index(h, todo[n][1])
             b == h.directory[dir_index + 1]
         IN Redistribute([h EXCEPT !.buckets[b].items =
                               DictSet(@, todo[n][1], todo[n][2])],
                         todo, n + 1)

\* split_bucket growing the directory at every split, without the test
\* "old_bucket.local_depth >= self.global_depth" (line 115)
split_bucket_grows_always(h, index0) ==
    LET old_bucket == h.directory[index0 + 1]
        h1 == GrowStep(h, old_bucket)
        h2 == [h1 EXCEPT !.buckets[old_bucket].local_depth = @ + 1]
        new_bucket == Len(h2.buckets) + 1
        h3 == [h2 EXCEPT
                 !.buckets = Append(@, Bucket(h2.files, h2.bucket_capacity,
                                              h2.buckets[old_bucket].local_depth,
                                              h2.next_bucket_id)),
                 !.next_bucket_id = @ + 1]
        shift == Shl1(h3.buckets[old_bucket].local_depth - 1)
        h4 == [h3 EXCEPT !.directory = Repoint(@, old_bucket, new_bucket, shift)]
        items_to_redistribute == h4.buckets[old_bucket].items
        h5 == [h4 EXCEPT !.buckets[old_bucket].items = <<>>]
        h6 == Redistribute(h5, items_to_redistribute, 1)
    IN save_metadata(BucketSave(BucketSave(h6, old_bucket), new_bucket))

\* split_bucket without "old_bucket.items = {}" (line 137)
split_bucket_keeps_items(h, index0) ==
    LET old_bucket == h.directory[index0 + 1]
        grow == h.buckets[old_bucket].local_depth >= h.global_depth
        h1 == IF grow THEN GrowStep(h, old_bucket) ELSE h
        h2 == [h1 EXCEPT !.buckets[old_bucket].local_depth = @ + 1]
        new_bucket == Len(h2.buckets) + 1
        h3 == [h2 EXCEPT
                 !.buckets = Append(@, Bucket(h2.files, h2.bucket_capacity,
                                              h2.buckets[old_bucket].local_depth,
                                              h2.next_bucket_id)),
                 !.next_bucket_id = @ + 1]
        shift == Shl1(h3.buckets[old_bucket].local_depth - 1)
        h4 == [h3 EXCEPT !.directory = Repoint(@, old_bucket, new_bucket, shift)]
        h6 == Redistribute(h4, h4.buckets[old_bucket].items, 1)
    IN save_metadata(BucketSave(BucketSave(h6, old_bucket), new_bucket))

\* ExtendibleHash.split_bucket
split_bucket(h, index0) ==
    LET old_bucket == h.directory[index0 + 1]
        grow == h.buckets[old_bucket].local_depth >= h.global_depth
        h1 == IF grow THEN GrowStep(h, old_bucket) ELSE h
        \* lines 118-120: index is recomputed and not read again
        index == IF grow /\ Len(h1.buckets[old_bucket].items) > 0
                 THEN get_directory_index(h1, h1.buckets[old_bucket].items[1][1])
                 ELSE index0
        h2 == [h1 EXCEPT !.buckets[old_bucket].local_depth = @ + 1]
        new_bucket == Len(h2.buckets) + 1
        h3 == [h2 EXCEPT
                 !.buckets = Append(@, Bucket(h2.files, h2.bucket_capacity,
                                              h2.buckets[old_bucket].local_depth,
                                              h2.next_bucket_id)),
                 !.next_bucket_id = @ + 1]
        shift == Shl1(h3.buckets[old_bucket].local_depth - 1)
        h4 == [h3 EXCEPT !.directory = Repoint(@, old_bucket, new_bucket, shift)]
        items_to_redistribute == h4.buckets[old_bucket].items
        h5 == [h4 EXCEPT !.buckets[old_bucket].items = <<>>]
        h6 == Redistribute(h5, items_to_redistribute, 1)
    IN save_metadata(BucketSave(BucketSave(h6, old_bucket), new_bucket))

\* the split_bucket call of insert, logged
SplitStep(h, index, key) ==
    LET b == h.directory[index + 1]
        s == split_bucket(h, index)
    IN [s EXCEPT !.splits = Append(@,
           [index |-> index,
            size |-> Len(h.buckets[b].items),
            capacity |-> h.buckets[b].capacity,
            has_key |-> DictHas(h.buckets[b].items, key),
            local_depth |-> h.buckets[b].local_depth,
            global_depth |-> h.global_depth,
            after_sizes |-> AsSeq([c \in 1..Len(s.buckets) |-> Len(s.buckets[c].items)])])]

\* ExtendibleHash.insert, the loop from attempt on
RECURSIVE InsertLoop(_, _, _, _)
InsertLoop(h, key, value, attempt) ==
    IF attempt >= max_attempts THEN [h |-> h, result |-> FALSE]
    ELSE LET index == get_directory_index(h, key)
             bucket == h.directory[index + 1]
         IN IF DictHas(h.buckets[bucket].items, key)
            THEN [h |-> h, result |-> FALSE]
            ELSE LET r == BucketInsert(h, bucket, key, value)
                 IN IF r.result THEN r
                    ELSE InsertLoop(SplitStep(r.h, index, key), key, value, attempt + 1)

\* insert storing the value before it looks for a duplicate
insert_overwrite(h, key, value) ==
    LET index == get_directory_index(h, key)
        bucket == h.directory[index + 1]
    IN IF DictHas(h.buckets[bucket].items, key)
       THEN [h |-> BucketSave([h EXCEPT !.buckets[bucket].items =
                                   DictSet(@, key, value)], bucket),
             result |-> FALSE]
       ELSE InsertLoop(h, key, value, 0)

\* ExtendibleHash.insert
insert(h, key, value) == InsertLoop(h, key, value, 0)

\* ExtendibleHash.search
search(h, key) ==
    LET index == get_directory_index(h, key)
        bucket == h.directory[index + 1]
    IN DictGet(h.buckets[bucket].items, key)

\* ExtendibleHash.count_buckets
count_buckets(h) == Cardinality({h.directory[i] : i \in 1..Len(h.directory)})

\* ExtendibleHash.__init__
ExtendibleHashInit(capacity, depth) ==
    LET initial_bucket == Bucket(<<>>, capacity, depth, 0)
        h == [bucket_capacity |-> capacity,
              global_depth |-> depth,
              directory |-> AsSeq([i \in 1..(2 ^ depth) |-> 1]),
              next_bucket_id |-> 1,
              buckets |-> <<initial_bucket>>,
              files |-> <<>>,
              splits |-> <<>>,
              grows |-> <<>>]
    IN save_metadata(h)

\* the table as the operators take it, with empty logs
HState ==
    [bucket_capacity |-> bucket_capacity, global_depth |-> global_depth,
     directory |-> directory, next_bucket_id |-> next_bucket_id,
     buckets |-> buckets, files |-> files, splits |-> <<>>, grows |-> <<>>]

NoCall == [key |-> 0, result |-> FALSE, called |-> FALSE]

HInitWith(capacity, depth) ==
    LET h == ExtendibleHashInit(capacity, depth)
    IN /\ bucket_capacity = h.bucket_capacity
       /\ global_depth = h.global_depth
       /\ directory = h.directory
       /\ next_bucket_id = h.next_bucket_id
       /\ buckets = h.buckets
       /\ files = h.files
       /\ hcall = NoCall
       /\ htrace = [splits |-> <<>>, grows |-> <<>>]
       /\ hins = {}

\* the (key, value) arguments of the insert calls
HInputs == {<<k, k>> : k \in HKeys} \cup {<<k, Payload(k)>> : k \in 0..MaxHValuedKey}

\* a call eh.insert(key, value)
HInsert(key, value) ==
    /\ global_depth <= MaxGlobalDepth
    /\ \E r \in {insert(HState, key, value)} :
          /\ bucket_capacity' = r.h.bucket_capacity
          /\ global_depth' = r.h.global_depth
          /\ directory' = r.h.directory
          /\ next_bucket_id' = r.h.next_bucket_id
          /\ buckets' = r.h.buckets
          /\ files' = r.h.files
          /\ hcall' = [key |-> key, result |-> r.result, called |-> TRUE]
          /\ htrace' = [splits |-> r.h.splits, grows |-> r.h.grows]
          /\ hins' = IF r.result THEN hins \cup {<<key, value>>} ELSE hins
    /\ UNCHANGED tvars

----------------------------------------------------------------------------
(* BPlusTree.  The operators take and return the tree as a record          *)
(* t = [nodes, root, leaf_num]. A node is a record [is_leaf_node, keys,    *)
(* parent, children, values, pointer]; an Internal node leaves values and  *)
(* pointer unused, a Leaf leaves children unused.                          *)

NoNode == 0

\* Leaf.__init__
Leaf == [is_leaf_node |-> TRUE, keys |-> <<>>, parent |-> NoNode,
         children |-> <<>>, values |-> <<>>, pointer |-> NoNode]

\* Internal.__init__
Internal == [is_leaf_node |-> FALSE, keys |-> <<>>, parent |-> NoNode,
             children |-> <<>>, values |-> <<>>, pointer |-> NoNode]

\* Node.is_full
is_full(n) == Len(n.keys) >= NodeOrder

\* list.insert(position, x), position counted from 0
ListInsert(s, position, x) ==
    SubSeq(s, 1, position) \o <<x>> \o SubSeq(s, position + 1, Len(s))

\* the loop "while position < len(keys) and key > keys[position]"
RECURSIVE AdvanceGt(_, _, _)
AdvanceGt(keys, key, position) ==
    IF position < Len(keys) /\ key > keys[position + 1]
    THEN AdvanceGt(keys, key, position + 1)
    ELSE position

\* the loop "while position < len(keys) and key >= keys[position]"
RECURSIVE AdvanceGe(_, _, _)
AdvanceGe(keys, key, position) ==
    IF position < Len(keys) /\ key >= keys[position + 1]
    THEN AdvanceGe(keys, key, position + 1)
    ELSE position

\* insert_key_and_value storing the new value over the old one before it refuses
\* a duplicate
insert_key_and_value_overwrite(leaf, key, value) ==
    LET position == AdvanceGt(leaf.keys, key, 0)
    IN IF position < Len(leaf.keys) /\ leaf.keys[position + 1] = key
       THEN [leaf |-> [leaf EXCEPT !.values[position + 1] = value], result |-> FALSE]
       ELSE [leaf |-> [leaf EXCEPT !.keys = ListInsert(@, position, key),
                                   !.values = ListInsert(@, position, value)],
             result |-> TRUE]

\* Leaf.insert_key_and_value: the leaf afterwards and the returned flag
insert_key_and_value(leaf, key, value) ==
    LET position == AdvanceGt(leaf.keys, key, 0)
    IN IF position < Len(leaf.keys) /\ leaf.keys[position + 1] = key
       THEN [leaf |-> leaf, result |-> FALSE]
       ELSE [leaf |-> [leaf EXCEPT !.keys = ListInsert(@, position, key),
                                   !.values = ListInsert(@, position, value)],
             result |-> TRUE]

\* the descent of search with "key > keys[position]" for "key >= keys[position]"
RECURSIVE SearchDescendGt(_, _, _)
SearchDescendGt(t, node, key) ==
    IF t.nodes[node].is_leaf_node THEN node
    ELSE LET position == AdvanceGt(t.nodes[node].keys, key, 0)
         IN SearchDescendGt(t, t.nodes[node].children[position + 1], key)

\* BPlusTree.search, lines 85-90: the descent to a leaf
RECURSIVE SearchDescend(_, _, _)
SearchDescend(t, node, key) ==
    IF t.nodes[node].is_leaf_node THEN node
    ELSE LET position == AdvanceGe(t.nodes[node].keys, key, 0)
         IN SearchDescend(t, t.nodes[node].children[position + 1], key)

\* BPlusTree.search, lines 92-96: the scan of the leaf
LeafScan(leaf, key) ==
    IF \E i \in 1..Len(leaf.keys) : leaf.keys[i] = key
    THEN Some(leaf.values[CHOOSE i \in 1..Len(leaf.keys) :
                 /\ leaf.keys[i] = key
                 /\ \A j \in 1..(i - 1) : leaf.keys[j] # key])
    ELSE None

\* BPlusTree.search
tree_search(t, key) == LeafScan(t.nodes[SearchDescend(t, t.root, key)], key)

\* the descent of insert with "key > keys[position]" for "key >= keys[position]"
RECURSIVE InsertDescendGt(_, _, _)
InsertDescendGt(t, node, key) ==
    IF t.nodes[node].is_leaf_node THEN node
    ELSE LET position == AdvanceGt(t.nodes[node].keys, key, 0)
         IN InsertDescendGt(t, t.nodes[node].children[position + 1], key)

\* BPlusTree.insert, lines 112-117: the descent to a leaf
RECURSIVE InsertDescend(_, _, _)
InsertDescend(t, node, key) ==
    IF t.nodes[node].is_leaf_node THEN node
    ELSE LET position == AdvanceGe(t.nodes[node].keys, key, 0)
         IN InsertDescend(t, t.nodes[node].children[position + 1], key)

\* list.index(x), counted from 0
ListIndex(s, x) ==
    (CHOOSE i \in 1..Len(s) : s[i] = x /\ \A j \in 1..(i - 1) : s[j] # x) - 1

\* the leaf split without "new_node.pointer = node.pointer"
SplitLeafDropsNext(t, node) ==
    LET nd == t.nodes[node]
        new_node == Len(t.nodes) + 1
        mid == Len(nd.keys) \div 2
        new_rec == [Leaf EXCEPT !.keys = SubSeq(nd.keys, mid + 1, Len(nd.keys)),
                                !.values = SubSeq(nd.values, mid + 1, Len(nd.values))]
        old_rec == [nd EXCEPT !.keys = SubSeq(nd.keys, 1, mid),
                              !.values = SubSeq(nd.values, 1, mid),
                              !.pointer = new_node]
    IN [t |-> [t EXCEPT !.nodes = Append([@ EXCEPT ![node] = old_rec], new_rec),
                        !.leaf_num = @ + 1],
        new_node |-> new_node,
        copied_or_pushed_key |-> new_rec.keys[1]]

\* split_node, lines 135-148: the leaf is cut in two
SplitLeaf(t, node) ==
    LET nd == t.nodes[node]
        new_node == Len(t.nodes) + 1
        mid == Len(nd.keys) \div 2
        new_rec == [Leaf EXCEPT !.keys = SubSeq(nd.keys, mid + 1, Len(nd.keys)),
                                !.values = SubSeq(nd.values, mid + 1, Len(nd.values)),
                                !.pointer = nd.pointer]
        old_rec == [nd EXCEPT !.keys = SubSeq(nd.keys, 1, mid),
                              !.values = SubSeq(nd.values, 1, mid),
                              !.pointer = new_node]
    IN [t |-> [t EXCEPT !.nodes = Append([@ EXCEPT ![node] = old_rec], new_rec),
                        !.leaf_num = @ + 1],
        new_node |-> new_node,
        copied_or_pushed_key |-> new_rec.keys[1]]

\* the internal split with "node.children[mid:]" for "node.children[mid+1:]"
SplitInternalFromMid(t, node) ==
    LET nd == t.nodes[node]
        new_node == Len(t.nodes) + 1
        mid == Len(nd.keys) \div 2
        new_rec == [Internal EXCEPT
                      !.keys = SubSeq(nd.keys, mid + 2, Len(nd.keys)),
                      !.children = SubSeq(nd.children, mid + 1, Len(nd.children))]
        old_rec == [nd EXCEPT !.keys = SubSeq(nd.keys, 1, mid),
                              !.children = SubSeq(nd.children, 1, mid + 1)]
        moved == {new_rec.children[i] : i \in 1..Len(new_rec.children)}
        ns == Append([t.nodes EXCEPT ![node] = old_rec], new_rec)
    IN [t |-> [t EXCEPT !.nodes =
                  AsSeq([c \in 1..Len(ns) |->
                           IF c \in moved THEN [ns[c] EXCEPT !.parent = new_node]
                           ELSE ns[c]])],
        new_node |-> new_node,
        copied_or_pushed_key |-> nd.keys[mid + 1]]

\* the internal split without "child.parent = new_node" (lines 158-159)
SplitInternalKeepsParent(t, node) ==
    LET nd == t.nodes[node]
        new_node == Len(t.nodes) + 1
        mid == Len(nd.keys) \div 2
        new_rec == [Internal EXCEPT
                      !.keys = SubSeq(nd.keys, mid + 2, Len(nd.keys)),
                      !.children = SubSeq(nd.children, mid + 2, Len(nd.children))]
        old_rec == [nd EXCEPT !.keys = SubSeq(nd.keys, 1, mid),
                              !.children = SubSeq(nd.children, 1, mid + 1)]
    IN [t |-> [t EXCEPT !.nodes = Append([@ EXCEPT ![node] = old_rec], new_rec)],
        new_node |-> new_node,
        copied_or_pushed_key |-> nd.keys[mid + 1]]

\* split_node, lines 150-162: the internal node is cut in two
SplitInternal(t, node) ==
    LET nd == t.nodes[node]
        new_node == Len(t.nodes) + 1
        mid == Len(nd.keys) \div 2
        new_rec == [Internal EXCEPT
                      !.keys = SubSeq(nd.keys, mid + 2, Len(nd.keys)),
                      !.children = SubSeq(nd.children, mid + 2, Len(nd.children))]
        old_rec == [nd EXCEPT !.keys = SubSeq(nd.keys, 1, mid),
                              !.children = SubSeq(nd.children, 1, mid + 1)]
        moved == {new_rec.children[i] : i \in 1..Len(new_rec.children)}
        ns == Append([t.nodes EXCEPT ![node] = old_rec], new_rec)
    IN [t |-> [t EXCEPT !.nodes =
                  AsSeq([c \in 1..Len(ns) |->
                           IF c \in moved THEN [ns[c] EXCEPT !.parent = new_node]
                           ELSE ns[c]])],
        new_node |-> new_node,
        copied_or_pushed_key |-> nd.keys[mid + 1]]

\* split_node, lines 165-171: a new root above the two halves
NewRoot(t, node, new_node, key) ==
    LET new_root == Len(t.nodes) + 1
        root_rec == [Internal EXCEPT !.keys = <<key>>,
                                     !.children = <<node, new_node>>]
    IN [t EXCEPT !.nodes = Append([@ EXCEPT ![node].parent = new_root,
                                            ![new_node].parent = new_root],
                                  root_rec),
                 !.root = new_root]

\* the two halves put below a new Internal node that takes the place of node in
\* the parent, instead of the key and the new node going into the parent
IntoParentNested(t, node, new_node, key) ==
    LET parent == t.nodes[node].parent
        position == ListIndex(t.nodes[parent].children, node)
        inner == Len(t.nodes) + 1
        inner_rec == [Internal EXCEPT !.keys = <<key>>,
                                      !.children = <<node, new_node>>,
                                      !.parent = parent]
    IN [t EXCEPT !.nodes = Append([@ EXCEPT ![parent].children[position + 1] = inner,
                                            ![node].parent = inner,
                                            ![new_node].parent = inner],
                                  inner_rec)]

\* split_node, lines 173-177: the key and the new node go into the parent
IntoParent(t, node, new_node, key) ==
    LET parent == t.nodes[node].parent
        position == ListIndex(t.nodes[parent].children, node)
    IN [t EXCEPT !.nodes[parent].keys = ListInsert(@, position, key),
                 !.nodes[parent].children = ListInsert(@, position + 1, new_node),
                 !.nodes[new_node].parent = parent]

\* BPlusTree.split_node
RECURSIVE split_node(_, _)
split_node(t, node) ==
    LET s == IF t.nodes[node].is_leaf_node THEN SplitLeaf(t, node)
             ELSE SplitInternal(t, node)
    IN IF s.t.nodes[node].parent = NoNode
       THEN NewRoot(s.t, node, s.new_node, s.copied_or_pushed_key)
       ELSE LET p == IntoParent(s.t, node, s.new_node, s.copied_or_pushed_key)
                parent == s.t.nodes[node].parent
            IN IF Len(p.nodes[parent].keys) > NodeOrder
               THEN split_node(p, parent)
               ELSE p

\* BPlusTree.insert; value is None or Some(v)
tree_insert(t, key, value0) ==
    LET value == IF value0 = None THEN key ELSE value0[1]
    IN IF Len(t.nodes[t.root].keys) = 0
       THEN [t |-> [t EXCEPT !.nodes[t.root].keys = Append(@, key),
                             !.nodes[t.root].values = Append(@, value)],
             result |-> TRUE]
       ELSE LET node == InsertDescend(t, t.root, key)
                r == insert_key_and_value(t.nodes[node], key, value)
                t1 == [t EXCEPT !.nodes[node] = r.leaf]
            IN IF ~r.result THEN [t |-> t1, result |-> FALSE]
               ELSE [t |-> IF is_full(t1.nodes[node]) THEN split_node(t1, node) ELSE t1,
                     result |-> TRUE]

----------------------------------------------------------------------------
(* BPlusTree.load_from_file.  A character is its Unicode code point        *)
(* (Python's ord), a line of the file a sequence of characters, the file   *)
(* a sequence of lines.  The character classes are those of Python 3.11    *)
(* (Unicode 14.0).                                                         *)

\* the characters c with c.isspace(): tab, line feed, vertical tab, form feed,
\* carriage return, the separators 28 .. 31, space, and the spaces above ASCII
Whitespace ==
    {9, 10, 11, 12, 13, 28, 29, 30, 31, 32, 133, 160, 5760} \cup (8192..8202)
        \cup {8232, 8233, 8239, 8287, 12288}

RECURSIVE LStrip(_)
LStrip(s) == IF Len(s) > 0 /\ s[1] \in Whitespace THEN LStrip(Tail(s)) ELSE s

RECURSIVE RStrip(_)
RStrip(s) ==
    IF Len(s) > 0 /\ s[Len(s)] \in Whitespace THEN RStrip(SubSeq(s, 1, Len(s) - 1)) ELSE s

\* str.strip
Strip(s) == RStrip(LStrip(s))

\* sys.get_int_max_str_digits(), as Python 3.11 starts with: int raises ValueError
\* for a string of more digits, whatever its value
int_max_str_digits == 4300

\* "+", "-" and "_"
PlusSign == 43
MinusSign == 45
Underscore == 95

\* the digit zero of every script: int takes the decimal digits of all scripts, and
\* the ten digits of a script follow each other from its zero on ("0" is 48)
DecimalZeros ==
    {48, 1632, 1776, 1984, 2406, 2534, 2662, 2790, 2918, 3046, 3174, 3302,
     3430, 3558, 3664, 3792, 3872, 4160, 4240, 6112, 6160, 6470, 6608, 6784,
     6800, 6992, 7088, 7232, 7248, 42528, 43216, 43264, 43472, 43504, 43600,
     44016, 65296, 66720, 68912, 69734, 69872, 69942, 70096, 70384, 70736,
     70864, 71248, 71360, 71472, 71904, 72016, 72784, 73040, 73120, 92768,
     92864, 93008, 120782, 120792, 120802, 120812, 120822, 123200, 123632,
     125264, 130032}
IsDigit(c) == \E zero \in DecimalZeros : c \in zero..(zero + 9)
DigitValue(c) == c - (CHOOSE zero \in DecimalZeros : c \in zero..(zero + 9))

\* the number written by the digits of s (underscores passed over), after the
\* digits that gave acc; numbers stay below 2^31
RECURSIVE DigitsValue(_, _)
DigitsValue(s, acc) ==
    IF Len(s) = 0 THEN acc
    ELSE IF s[1] = Underscore THEN DigitsValue(Tail(s), acc)
    ELSE DigitsValue(Tail(s), 10 * acc + DigitValue(s[1]))

\* int(s) for s without surrounding whitespace: Some(number), or None for a
\* ValueError. A number is an optional sign and one or more groups of decimal
\* digits with a single underscore between two groups, of at most
\* int_max_str_digits digits in all (the sign and the underscores not counted).
PyInt(s) ==
    LET signed == Len(s) > 0 /\ s[1] \in {PlusSign, MinusSign}
        digits == IF signed THEN Tail(s) ELSE s
    IN IF /\ Len(digits) > 0
          /\ \A i \in 1..Len(digits) : IsDigit(digits[i]) \/ digits[i] = Underscore
          /\ IsDigit(digits[1])
          /\ IsDigit(digits[Len(digits)])
          /\ \A i \in 1..(Len(digits) - 1) :
                ~(digits[i] = Underscore /\ digits[i + 1] = Underscore)
          /\ Cardinality({i \in 1..Len(digits) : IsDigit(digits[i])})
                <= int_max_str_digits
       THEN Some(IF s[1] = MinusSign THEN 0 - DigitsValue(digits, 0)
                 ELSE DigitsValue(digits, 0))
       ELSE None

\* load_from_file, lines 189-191, from line n on: the tree afterwards and the
\* insert calls made. The ValueError of int leaves the loop (the try statement
\* of line 187 is around the whole loop).
RECURSIVE LoadLines(_, _, _, _)
LoadLines(t, calls, file, n) ==
    IF n > Len(file) THEN [t |-> t, calls |-> calls]
    ELSE LET number == PyInt(Strip(file[n]))
         IN IF number = None THEN [t |-> t, calls |-> calls]
            ELSE LET r == tree_insert(t, number[1], None)
                 IN LoadLines(r.t, Append(calls, [key |-> number[1], result |-> r.result]),
                              file, n + 1)

\* BPlusTree.load_from_file; contents is None for a file that does not exist and
\* Some(lines) otherwise
load_from_file(t, contents) ==
    IF contents = None THEN [t |-> t, calls |-> <<>>]
    ELSE LoadLines(t, <<>>, contents[1], 1)

\* BPlusTree.__init__
BPlusTreeInit == [nodes |-> <<Leaf>>, root |-> 1, leaf_num |-> 1]

TState == [nodes |-> nodes, root |-> root, leaf_num |-> leaf_num]

\* A reference is an opaque object identity: two heaps that differ only in which
\* index holds which node are the same tree.  Relabel numbers the nodes in
\* pre-order from the root, so that each tree is stored once.
RECURSIVE PreOrder(_, _)
RECURSIVE PreOrderAll(_, _, _)
PreOrder(t, node) == <<node>> \o PreOrderAll(t, t.nodes[node].children, 1)
PreOrderAll(t, children, i) ==
    IF i > Len(children) THEN <<>>
    ELSE PreOrder(t, children[i]) \o PreOrderAll(t, children, i + 1)

Relabel(t) ==
    LET order == PreOrder(t, t.root)
        new == [n \in 0..Len(t.nodes) |->
                  IF n = NoNode THEN NoNode
                  ELSE IF \E i \in 1..Len(order) : order[i] = n
                  THEN CHOOSE i \in 1..Len(order) : order[i] = n
                  ELSE NoNode]
    IN [t EXCEPT
          !.nodes = AsSeq([i \in 1..Len(order) |->
                       [parent |-> new[t.nodes[order[i]].parent],
                        pointer |-> new[t.nodes[order[i]].pointer],
                        children |-> AsSeq([c \in 1..Len(t.nodes[order[i]].children) |->
                                              new[t.nodes[order[i]].children[c]]]),
                        is_leaf_node |-> t.nodes[order[i]].is_leaf_node,
                        keys |-> t.nodes[order[i]].keys,
                        values |-> t.nodes[order[i]].values]]),
          !.root = new[t.root]]

TKeys == 1..MaxKey
\* the (key, value) arguments of the insert calls
TInputs ==
    {<<k, None>> : k \in TKeys} \cup {<<k, Some(Payload(k))>> : k \in 1..MaxValuedKey}

TInit ==
    /\ nodes = BPlusTreeInit.nodes
    /\ root = BPlusTreeInit.root
    /\ leaf_num = BPlusTreeInit.leaf_num
    /\ tcall = [result |-> FALSE, called |-> FALSE]
    /\ tins = {}
    /\ tfirst = {}
    /\ tload = [called |-> FALSE, file |-> <<>>]

\* the value a call insert(key, value) gives to key: value, or key for insert(key)
Given(key, value) == IF value = None THEN key ELSE value[1]

\* a call tree.insert(key, value)
TInsert(key, value) ==
    /\ \E r \in {tree_insert(TState, key, value)} :
          /\ \E t \in {Relabel(r.t)} :
                /\ nodes' = t.nodes
                /\ root' = t.root
                /\ leaf_num' = t.leaf_num
          /\ tcall' = [result |-> r.result, called |-> TRUE]
          /\ tins' = IF r.result THEN tins \cup {<<key, Given(key, value)>>} ELSE tins
          /\ tfirst' = IF \E p \in tfirst : p[1] = key THEN tfirst
                       ELSE tfirst \cup {<<key, Given(key, value)>>}
    /\ UNCHANGED tload
    /\ UNCHANGED hvars

\* a call tree.insert(key) of a workload that grows a run of keys: the first key is
\* any key, every later key lies below the smallest or above the largest key of
\* the tree, at most two away from it
TInsertRun(key) ==
    /\ \/ tins = {}
       \/ /\ \/ \A p \in tins : key < p[1]
             \/ \A p \in tins : key > p[1]
          /\ \E p \in tins : key \in (p[1] - 2)..(p[1] + 2)
    /\ TInsert(key, None)

\* the lines the files are made of: "1\n", "2\n", "\t+1 \n" (a number with a sign
\* and whitespace around it), "-1_0\n" (a negative number of two digits, written
\* with an underscore), "\n" (a blank line) and "x\n" (a line that is no number)
Lines ==
    {<<49, 10>>, <<50, 10>>, <<9, 43, 49, 32, 10>>, <<45, 49, 95, 48, 10>>,
     <<10>>, <<120, 10>>}
Files == UNION {[1..n -> Lines] : n \in 0..MaxLines}
\* what load_from_file finds under filename: no file, or a file
LoadInputs == {None} \cup {Some(f) : f \in Files}

\* a call tree.load_from_file(filename)
TLoad(contents) ==
    /\ \E r \in {load_from_file(TState, contents)} :
          /\ \E t \in {Relabel(r.t)} :
                /\ nodes' = t.nodes
                /\ root' = t.root
                /\ leaf_num' = t.leaf_num
          /\ tcall' = IF Len(r.calls) = 0 THEN tcall
                      ELSE [result |-> r.calls[Len(r.calls)].result, called |-> TRUE]
          /\ tins' = tins \cup {<<r.calls[i].key, r.calls[i].key>> :
                                   i \in {j \in 1..Len(r.calls) : r.calls[j].result}}
          /\ tfirst' = tfirst \cup {<<r.calls[i].key, r.calls[i].key>> :
                                       i \in {j \in 1..Len(r.calls) :
                                                 ~\E p \in tfirst : p[1] = r.calls[j].key}}
    /\ tload' = [called |-> TRUE, file |-> IF contents = None THEN <<>> ELSE contents[1]]
    /\ UNCHANGED hvars

----------------------------------------------------------------------------
(* Properties of the B+ tree, checked under TreeSpec. *)

\* the nodes reachable from the root
TreeNodes == {PreOrder(TState, root)[i] : i \in 1..Len(PreOrder(TState, root))}
LeafNodes == {n \in TreeNodes : nodes[n].is_leaf_node}
InternalNodes == {n \in TreeNodes : ~nodes[n].is_leaf_node}
SeqSet(s) == {s[i] : i \in 1..Len(s)}
\* the keys held by the leaves
TreeKeys == UNION {SeqSet(nodes[n].keys) : n \in LeafNodes}
\* the tree has an Internal root whose children are Internal nodes
ThreeLevels == ~nodes[root].is_leaf_node /\ ~nodes[nodes[root].children[1]].is_leaf_node

\* C1: search(k) returns the value given to k by its (first) insert call for every
\* key passed to insert, and None for every key never passed to insert (the keys
\* 0 and MaxKey + 1 are never inserted).
C1_SearchReturnsInserted ==
    /\ \A p \in tfirst : tree_search(TState, p[1]) = Some(p[2])
    /\ \A k \in 0..(MaxKey + 1) :
          (~\E p \in tfirst : p[1] = k) => tree_search(TState, k) = None

\* C1 witness: keys are found at the bottom of a tree of three levels
C1_Witness == ThreeLevels /\ (\E p \in tfirst : p[2] # p[1])

\* the leftmost leaf: children[0] all the way down
RECURSIVE LeftmostLeaf(_)
LeftmostLeaf(node) ==
    IF nodes[node].is_leaf_node THEN node ELSE LeftmostLeaf(nodes[node].children[1])

\* the keys read along Leaf.pointer from leaf on, over at most fuel leaves
RECURSIVE ChainKeys(_, _)
ChainKeys(leaf, fuel) ==
    IF leaf = NoNode \/ fuel = 0 THEN <<>>
    ELSE nodes[leaf].keys \o ChainKeys(nodes[leaf].pointer, fuel - 1)

\* the leaves met along Leaf.pointer from leaf on
RECURSIVE ChainLeaves(_, _)
ChainLeaves(leaf, fuel) ==
    IF leaf = NoNode \/ fuel = 0 THEN <<>>
    ELSE <<leaf>> \o ChainLeaves(nodes[leaf].pointer, fuel - 1)

LeafChain == ChainKeys(LeftmostLeaf(root), Len(nodes) + 1)

\* C3: the keys read along the leaf chain from the leftmost leaf are strictly
\* ascending (so without duplicates), the chain ends, and they are exactly the keys
\* whose insert returned True.
C3_LeafChainSortedComplete ==
    /\ Len(ChainLeaves(LeftmostLeaf(root), Len(nodes) + 1)) <= Len(nodes)
    /\ \A i \in 1..(Len(LeafChain) - 1) : LeafChain[i] < LeafChain[i + 1]
    /\ SeqSet(LeafChain) = {p[1] : p \in tins}

\* C3 witness: a chain over at least six leaves, below a tree of three levels
C3_Witness == ThreeLevels /\ Len(ChainLeaves(LeftmostLeaf(root), Len(nodes) + 1)) >= 6

\* C4: after every insert call every Internal node reachable from the root has one
\* more child than keys, and every node holds at most 4 keys.
C4_NodeShape ==
    /\ \A n \in InternalNodes : Len(nodes[n].children) = Len(nodes[n].keys) + 1
    /\ \A n \in TreeNodes : Len(nodes[n].keys) <= 4

\* C4 witness: an Internal node has been split (the root of five keys)
C4_Witness == ThreeLevels /\ tcall.called /\ tcall.result

\* C5: insert(k, v) for a key k held by the tree returns False and leaves the tree
\* (every node, the values, the leaf chain, the root, leaf_num) as it was.
C5_DuplicateInsertNoChange ==
    \A k \in TreeKeys : \A v \in {None, Some(Payload(k))} :
        tree_insert(TState, k, v) = [t |-> TState, result |-> FALSE]

\* C5 witness: an insert call has just returned False on a tree with several leaves
C5_Witness == tcall.called /\ ~tcall.result /\ ~nodes[root].is_leaf_node

\* the keys held by the nodes of the subtree below node, node included
RECURSIVE SubtreeKeys(_)
SubtreeKeys(node) ==
    SeqSet(nodes[node].keys)
        \cup UNION {SubtreeKeys(nodes[node].children[i]) :
                       i \in 1..Len(nodes[node].children)}

\* C14: in every Internal node the keys are strictly ascending and every key in the
\* subtree children[i] is >= keys[i-1] (for i > 0) and < keys[i] (for i < len(keys));
\* and the descent of search and the descent of insert end in the same leaf for
\* every key, held or not.
C14_Separators ==
    /\ \A n \in InternalNodes :
          /\ \A i \in 1..(Len(nodes[n].keys) - 1) : nodes[n].keys[i] < nodes[n].keys[i + 1]
          /\ \A i \in 1..Len(nodes[n].children) :
                \A k \in SubtreeKeys(nodes[n].children[i]) :
                    /\ i > 1 => k >= nodes[n].keys[i - 1]
                    /\ i <= Len(nodes[n].keys) => k < nodes[n].keys[i]
    /\ \A k \in 0..(MaxKey + 1) :
          SearchDescend(TState, root, k) = InsertDescend(TState, root, k)

\* C14 witness: a tree of three levels in which an Internal node below the root
\* has several separators, each of them held by a leaf
C14_Witness ==
    /\ ThreeLevels
    /\ \E n \in InternalNodes :
          /\ n # root
          /\ Len(nodes[n].keys) >= 2
          /\ SeqSet(nodes[n].keys) \subseteq TreeKeys

\* C15: the root has no parent; every other node reachable from the root has an
\* Internal node of the tree as parent, appears exactly once among the children
\* of that node and among the children of no other node.
C15_ParentLinks ==
    LET reachable == TreeNodes
        internal == {n \in reachable : ~nodes[n].is_leaf_node}
    IN /\ nodes[root].parent = NoNode
       /\ \A n \in reachable \ {root} :
             /\ nodes[n].parent \in internal
             /\ Cardinality({i \in 1..Len(nodes[nodes[n].parent].children) :
                                nodes[nodes[n].parent].children[i] = n}) = 1
             /\ \A q \in internal :
                   n \in SeqSet(nodes[q].children) => q = nodes[n].parent

\* C15 witness: the root has been split and, by a cascade from a leaf, an Internal
\* node below it too (the root has three Internal children or more)
C15_Witness ==
    /\ ThreeLevels
    /\ Len(nodes[root].children) >= 3

\* the depths below node, itself at depth, at which leaves are found
RECURSIVE LeafDepths(_, _)
LeafDepths(node, depth) ==
    IF nodes[node].is_leaf_node THEN {depth}
    ELSE UNION {LeafDepths(nodes[node].children[i], depth + 1) :
                  i \in 1..Len(nodes[node].children)}

\* C20: every leaf is at the same depth below the root.
C20_Balanced == Cardinality(LeafDepths(root, 0)) = 1

\* C20 witness: the last insert call stored its key in a tree whose leaves are all
\* two levels below the root
C20_Witness ==
    /\ tcall.called /\ tcall.result
    /\ LeafDepths(root, 0) = {2}

----------------------------------------------------------------------------
(* Properties of the extendible hash table, checked under HashSpec. *)

\* the buckets the directory references
DirBuckets == {directory[i] : i \in 1..Len(directory)}
\* the slots (counted from 0) that reference bucket b
SlotsOf(b) == {i \in 0..(Len(directory) - 1) : directory[i + 1] = b}
\* the keys held by the buckets the directory references
StoredKeys == UNION {DictKeys(buckets[b].items) : b \in DirBuckets}

\* C2: every bucket the directory references, of local depth d, is referenced by
\* exactly 2^(global_depth - d) slots.
C2_SlotCount ==
    \A b \in DirBuckets :
        /\ buckets[b].local_depth <= global_depth
        /\ Cardinality(SlotsOf(b)) = 2 ^ (global_depth - buckets[b].local_depth)

\* C6: insert(k, v) for a key k held by the table returns False and leaves the
\* table (every bucket's items and local depth, the directory, global_depth, the
\* number of buckets, the files) as it was.
C6_DuplicateInsertNoChange ==
    \A k \in StoredKeys : \A v \in {k, Payload(k)} :
        insert(HState, k, v) = [h |-> HState, result |-> FALSE]

\* C6 witness: an insert of a stored key has just returned False, in a table that
\* has split before
C6_Witness ==
    /\ hcall.called /\ ~hcall.result /\ hcall.key \in StoredKeys
    /\ Cardinality(DirBuckets) >= 2

\* C7: search(k) returns the value of the insert call that returned True for k,
\* and None for every key without such a call.
C7_SearchReturnsInserted ==
    /\ \A p \in hins : search(HState, p[1]) = Some(p[2])
    /\ \A k \in HKeys :
          (~\E p \in hins : p[1] = k) => search(HState, k) = None

\* C7 witness: the last insert split a bucket that held keys and grew the directory,
\* and keys with both values are stored
C7_Witness ==
    /\ hcall.called /\ hcall.result
    /\ Len(htrace.grows) >= 1
    /\ \E i \in 1..Len(htrace.splits) : htrace.splits[i].size >= 1
    /\ Cardinality(hins) >= 3
    /\ \E p \in hins : p[2] # p[1]

\* C8: every bucket holds at most capacity items, after every insert call and
\* right after every split_bucket call made by it.
C8_BucketWithinCapacity ==
    /\ \A b \in 1..Len(buckets) : Len(buckets[b].items) <= buckets[b].capacity
    /\ \A i \in 1..Len(htrace.splits) :
          \A b \in 1..Len(htrace.splits[i].after_sizes) :
              htrace.splits[i].after_sizes[b] <= bucket_capacity

\* C8 witness: split_bucket has just redistributed the items of a bucket, and a
\* bucket is full
C8_Witness ==
    /\ \E i \in 1..Len(htrace.splits) : htrace.splits[i].size >= 2
    /\ \E b \in 1..Len(buckets) : Len(buckets[b].items) = buckets[b].capacity

\* C9: split_bucket is called only on a bucket that holds exactly capacity items
\* and not the key being inserted; and an insert whose target bucket has free
\* space splits no bucket and leaves the directory, the number of buckets and
\* global_depth as they were.
C9_SplitOnlyWhenFull ==
    /\ \A i \in 1..Len(htrace.splits) :
          /\ htrace.splits[i].size = htrace.splits[i].capacity
          /\ ~htrace.splits[i].has_key
    /\ \A inp \in HInputs :
          LET b == directory[get_directory_index(HState, inp[1]) + 1]
              r == insert(HState, inp[1], inp[2])
          IN Len(buckets[b].items) < buckets[b].capacity =>
                /\ r.h.splits = <<>>
                /\ r.h.grows = <<>>
                /\ r.h.directory = directory
                /\ r.h.global_depth = global_depth
                /\ Len(r.h.buckets) = Len(buckets)

\* C9 witness: the last insert called split_bucket, and some bucket has free space
C9_Witness ==
    /\ Len(htrace.splits) >= 1
    /\ \E b \in DirBuckets : Len(buckets[b].items) < buckets[b].capacity

\* the split_bucket calls of the last insert call that found the bucket's local
\* depth equal to the global depth / below it
SplitsAtGlobalDepth ==
    {i \in 1..Len(htrace.splits) :
        htrace.splits[i].local_depth = htrace.splits[i].global_depth}
SplitsBelowGlobalDepth ==
    {i \in 1..Len(htrace.splits) :
        htrace.splits[i].local_depth < htrace.splits[i].global_depth}

\* C10: every grow_directory step doubles the directory, adds one to global_depth,
\* keeps the slots [0, old_size) and makes slot i + old_size reference the bucket
\* of slot i; and it is made while splitting a bucket whose local depth equals the
\* global depth, and only then: a split of a bucket of smaller local depth grows
\* nothing (the grow_directory steps of an insert call are as many as its splits
\* at the global depth, and the global depth after a split is one more than
\* before it when the split was at the global depth, and the same otherwise).
C10_GrowDoubles ==
    /\ \A i \in 1..Len(htrace.grows) :
          LET e == htrace.grows[i]
              old_size == Len(e.before_dir)
          IN /\ Len(e.after_dir) = 2 * old_size
             /\ e.after_depth = e.before_depth + 1
             /\ \A j \in 1..old_size :
                   /\ e.after_dir[j] = e.before_dir[j]
                   /\ e.after_dir[j + old_size] = e.before_dir[j]
             /\ e.local_depth = e.before_depth
    /\ SplitsAtGlobalDepth \cup SplitsBelowGlobalDepth = 1..Len(htrace.splits)
    /\ Len(htrace.grows) = Cardinality(SplitsAtGlobalDepth)
    /\ \A i \in 1..Len(htrace.splits) :
          LET depth_after == IF i < Len(htrace.splits)
                             THEN htrace.splits[i + 1].global_depth
                             ELSE global_depth
          IN depth_after = htrace.splits[i].global_depth
                              + (IF i \in SplitsAtGlobalDepth THEN 1 ELSE 0)

\* C10 witness: the last insert first split a bucket of local depth below the
\* global depth, which grew nothing, and then grew a directory of at least four
\* slots in which two slots reference different buckets
C10_Witness ==
    /\ 1 \in SplitsBelowGlobalDepth
    /\ \E i \in 1..Len(htrace.grows) :
          /\ Len(htrace.grows[i].before_dir) >= 4
          /\ \E j, k \in 1..Len(htrace.grows[i].before_dir) :
                htrace.grows[i].before_dir[j] # htrace.grows[i].before_dir[k]

\* C11: the directory has exactly 2^global_depth slots, every slot references a
\* bucket, and every bucket's local depth is at most global_depth.
C11_DirectoryShape ==
    /\ Len(directory) = 2 ^ global_depth
    /\ \A i \in 1..Len(directory) : directory[i] \in 1..Len(buckets)
    /\ \A b \in 1..Len(buckets) : buckets[b].local_depth <= global_depth

\* C11 witness: the directory has grown to four slots or more, and a bucket of
\* smaller local depth is referenced next to one at the global depth
C11_Witness ==
    /\ Len(directory) >= 4
    /\ \E b, c \in DirBuckets :
          /\ buckets[b].local_depth < global_depth
          /\ buckets[c].local_depth = global_depth

\* C12: a bucket saved under its identity (Bucket.save) and then re-created with
\* the same identity, whatever local_depth the constructor is given, has exactly
\* the items and the local depth that were saved.
C12_SaveReloadRoundTrip ==
    \A b \in 1..Len(buckets) : \A local_depth \in 0..(global_depth + 1) :
        LET saved == BucketSave(HState, b)
            again == Bucket(saved.files, buckets[b].capacity, local_depth,
                            buckets[b].bucket_id)
        IN /\ again.items = buckets[b].items
           /\ again.local_depth = buckets[b].local_depth

\* C13: after a load_from_file call every well-formed integer line of the file has
\* been inserted (its number is a key of the tree and search finds it), the
\* well-formed lines that come after a malformed or blank line included.
C13_LoadInsertsEveryNumber ==
    tload.called =>
        \A i \in 1..Len(tload.file) :
            LET number == PyInt(Strip(tload.file[i]))
            IN number # None =>
                  /\ number[1] \in TreeKeys
                  /\ tree_search(TState, number[1]) # None

\* C16: the keys held by a bucket of local depth d have the same low-order d bits
\* of their hash, and every slot that references the bucket has those same
\* low-order d bits.
C16_LowBitsAgree ==
    \A b \in DirBuckets :
        LET d == buckets[b].local_depth
            held == DictKeys(buckets[b].items)
        IN /\ \A k1, k2 \in held :
                 AndMask(hash_function(k1), d) = AndMask(hash_function(k2), d)
           /\ \A k \in held : \A i \in SlotsOf(b) :
                 AndMask(i, d) = AndMask(hash_function(k), d)

\* C17: an insert call makes at most 10 attempts: it splits at most 10 buckets and
\* so raises global_depth by at most 10, and when each of its 10 attempts found
\* the bucket full (10 splits) it returns False.
C17_BoundedAttempts ==
    /\ Len(htrace.splits) <= 10
    /\ Len(htrace.grows) <= Len(htrace.splits)
    /\ Len(htrace.grows) >= 1 =>
          /\ global_depth = htrace.grows[Len(htrace.grows)].after_depth
          /\ global_depth - htrace.grows[1].before_depth <= 10
    /\ Len(htrace.splits) = 10 => hcall.called /\ ~hcall.result

\* C17 witness: an insert call has given up after 10 splits, each of them growing
\* the directory
C17_Witness ==
    /\ hcall.called /\ ~hcall.result
    /\ Len(htrace.splits) = 10
    /\ Len(htrace.grows) = 10

\* C18: in a table constructed with the default global_depth 1 (DefaultSpec), for
\* every capacity, insert(k, v) of a key k that is not stored and whose hash
\* differs from the hash of every stored key returns True, and search(k) then
\* returns v. (Stated for the tables on which insert is called in the model, those
\* with global_depth <= MaxGlobalDepth.)
C18_FreshInsertSucceeds ==
    global_depth <= MaxGlobalDepth =>
        \A inp \in HInputs :
            (/\ inp[1] \notin StoredKeys
             /\ \A k \in StoredKeys : hash_function(k) # hash_function(inp[1]))
            => LET r == insert(HState, inp[1], inp[2])
               IN /\ r.result
                  /\ search(r.h, inp[1]) = Some(inp[2])

\* the (key, value) pairs held by bucket b
PairsOf(b) == {buckets[b].items[i] : i \in 1..Len(buckets[b].items)}

\* C19: the (key, value) pairs held by all the buckets together are exactly the
\* pairs of the insert calls that returned True (a call that returns True adds its
\* pair and nothing else, a call that returns False, after 10 splits too, changes
\* nothing); every bucket is referenced by the directory, and no key is held
\* twice, in one bucket or in two.
C19_ItemsPreserved ==
    /\ UNION {PairsOf(b) : b \in 1..Len(buckets)} = hins
    /\ \A b \in 1..Len(buckets) :
          /\ b \in DirBuckets
          /\ Cardinality(DictKeys(buckets[b].items)) = Len(buckets[b].items)
    /\ \A b, c \in 1..Len(buckets) :
          b # c => DictKeys(buckets[b].items) \cap DictKeys(buckets[c].items) = {}

\* C19 witness: an insert call has returned False after 10 splits that moved items,
\* in a table that holds two pairs or more
C19_Witness ==
    /\ hcall.called /\ ~hcall.result
    /\ Len(htrace.splits) = 10
    /\ \A i \in 1..Len(htrace.splits) : htrace.splits[i].size >= 1
    /\ Cardinality(hins) >= 2

----------------------------------------------------------------------------
(* Specifications: the two structures share no code and no state, so each  *)
(* is explored with the other one left as constructed.                     *)

HashInit ==
    /\ \E capacity \in 1..MaxCapacity, depth \in 0..MaxInitDepth :
          HInitWith(capacity, depth)
    /\ TInit

HashNext == \E inp \in HInputs : HInsert(inp[1], inp[2])

HashSpec == HashInit /\ [][HashNext]_vars

\* the tables constructed as ExtendibleHash(capacity), global_depth left at its
\* default
DefaultInit ==
    /\ \E capacity \in 1..MaxCapacity : HInitWith(capacity, 1)
    /\ TInit

DefaultSpec == DefaultInit /\ [][HashNext]_vars

TreeInit ==
    /\ HInitWith(2, 1)
    /\ TInit

TreeNext == \E inp \in TInputs : TInsert(inp[1], inp[2])

TreeSpec == TreeInit /\ [][TreeNext]_vars

RunNext == \E key \in 1..MaxRunKey : TInsertRun(key)

RunSpec == TreeInit /\ [][RunNext]_vars

LoadNext == \E contents \in LoadInputs : TLoad(contents)

LoadSpec == TreeInit /\ [][LoadNext]_vars

====
